---- MODULE Spec2Model ----
(***************************************************************************)
(* Model of calculate_investment_growth (src/investment.py, lines 6-124).  *)
(*                                                                         *)
(* Numbers.  Python floats are modelled as exact rationals <<n, d>> in     *)
(* lowest terms (d > 0), extended with <<1, 0>> (+inf), <<-1, 0>> (-inf)   *)
(* and <<0, 0>> (NaN).  The finite inputs are dyadic (k/64) and the rates  *)
(* are 0 and 1200 percent, so that rate/100 = 12, rate/100/12 = 1 and all  *)
(* unrounded intermediate values are dyadic rationals that IEEE doubles    *)
(* hold exactly.  A value that went through round(x, 2) is a whole number  *)
(* of cents; the double nearest to it is off by a relative error of about  *)
(* 1e-16, which changes a later round(x, 2) only if x is an exact decimal  *)
(* tie (x.xx5).  At such a tie of an inexactly held value the model allows *)
(* both neighbours (round2 returns a set); everywhere else round(x, 2) is  *)
(* the correctly rounded half-to-even result CPython computes.             *)
(***************************************************************************)
EXTENDS Integers, Sequences, FiniteSets, TLC

\* ---------------------------------------------------------------- bounds
MaxYears == 3       \* durations range over 0..MaxYears
MaxLump == 13       \* one_time_investment ranges over k/64, k in 0..MaxLump
MaxSip == 3         \* monthly_sip_amount ranges over k/64, k in 0..MaxSip
MaxLoad == 24       \* cap on 12*sip_years + 4*(holding years) at a positive
                    \* rate: keeps 2^(12*s) * 13^(T-s) inside TLC's integers

\* ------------------------------------------------------ extended rationals
RECURSIVE Gcd(_, _)
Gcd(a, b) == IF b = 0 THEN a ELSE Gcd(b, a % b)

Abs(n) == IF n < 0 THEN -n ELSE n

Sgn(n) == IF n < 0 THEN -1 ELSE IF n > 0 THEN 1 ELSE 0

\* the rational n/d (d > 0) in lowest terms
Q(n, d) == LET g == Gcd(Abs(n), d) IN <<n \div g, d \div g>>

Zero == <<0, 1>>
One == <<1, 1>>
Inf == <<1, 0>>
NaN == <<0, 0>>

IsFin(v) == v[2] # 0
IsNaN(v) == v = NaN
IsInf(v) == v[2] = 0 /\ v[1] # 0

\* float/int multiplication: nan propagates, 0 * inf = nan
Mul(a, b) ==
    IF IsNaN(a) \/ IsNaN(b) THEN NaN
    ELSE IF IsInf(a) \/ IsInf(b)
         THEN (IF a[1] = 0 \/ b[1] = 0 THEN NaN ELSE <<Sgn(a[1]) * Sgn(b[1]), 0>>)
    ELSE Q(a[1] * b[1], a[2] * b[2])

\* float/int addition: nan propagates, inf + (-inf) = nan
Add(a, b) ==
    IF IsNaN(a) \/ IsNaN(b) THEN NaN
    ELSE IF IsInf(a) /\ IsInf(b) THEN (IF a = b THEN a ELSE NaN)
    ELSE IF IsInf(a) THEN a
    ELSE IF IsInf(b) THEN b
    ELSE LET l == (a[2] \div Gcd(a[2], b[2])) * b[2]
         IN  Q(a[1] * (l \div a[2]) + b[1] * (l \div b[2]), l)

Neg(a) == <<-a[1], a[2]>>

Sub(a, b) == Add(a, Neg(b))

\* float division by a positive divisor (every division of the function is by
\* 100, by 12, or by monthly_interest_rate under the guard "> 0")
Div(a, b) ==
    IF IsNaN(a) \/ IsNaN(b) THEN NaN
    ELSE IF IsInf(b) THEN (IF IsInf(a) THEN NaN ELSE Zero)
    ELSE Mul(a, <<b[2], b[1]>>)

\* float ** int; x ** 0 is 1.0 for every x, nan and inf included
RECURSIVE Pow(_, _)
Pow(a, e) ==
    IF e = 0 THEN One
    ELSE IF e < 0 THEN Div(One, Pow(a, -e))
    ELSE LET h == Pow(a, e \div 2)
             sq == Mul(h, h)
         IN  IF e % 2 = 0 THEN sq ELSE Mul(a, sq)

\* arg >= 0 (false for nan)
GE0(v) == IF IsFin(v) THEN v[1] >= 0 ELSE v = Inf

\* arg > 0 (false for nan)
GT0(v) == IF IsFin(v) THEN v[1] > 0 ELSE v = Inf

\* the comparison with its operands swapped
LTSwapped(a, b) ==
    IF IsNaN(a) \/ IsNaN(b) THEN FALSE
    ELSE IF IsInf(b) THEN (b[1] < 0 /\ a # b)
    ELSE IF IsInf(a) THEN a[1] > 0
    ELSE b[1] * a[2] < a[1] * b[2]

\* a < b (false when either is nan)
LT(a, b) ==
    IF IsNaN(a) \/ IsNaN(b) THEN FALSE
    ELSE IF IsInf(a) THEN (a[1] < 0 /\ a # b)
    ELSE IF IsInf(b) THEN b[1] > 0
    ELSE a[1] * b[2] < b[1] * a[2]

RECURSIVE IsPow2(_)
IsPow2(d) == d = 1 \/ (d % 2 = 0 /\ IsPow2(d \div 2))

\* a finite value that a double holds exactly
IsDyadic(v) == IsFin(v) /\ IsPow2(v[2])

\* floor(100 * v) and the remainder that decides the rounding, for finite v
CentsFloor(v) == 100 * (v[1] \div v[2]) + ((100 * (v[1] % v[2])) \div v[2])
CentsRem(v) == (100 * (v[1] % v[2])) % v[2]
IsTie(v) == IsFin(v) /\ 2 * CentsRem(v) = v[2]

\* round(v, 2) of the exact value: half to even; nan and inf round to themselves
RoundHalfEven(v) ==
    IF ~IsFin(v) THEN v
    ELSE LET lo == CentsFloor(v)
             up == \/ 2 * CentsRem(v) > v[2]
                   \/ (2 * CentsRem(v) = v[2] /\ lo % 2 # 0)
         IN  Q(IF up THEN lo + 1 ELSE lo, 100)

\* round(v, 2) of the double that holds v: the outcomes the rounding can have
round2(v) ==
    IF IsTie(v) /\ ~IsDyadic(v)
    THEN {Q(CentsFloor(v), 100), Q(CentsFloor(v) + 1, 100)}
    ELSE {RoundHalfEven(v)}

\* ------------------------------------------------------------------ state
VARIABLES
    one_time_investment,                \* argument
    monthly_sip_amount,                 \* argument
    annual_interest_rate_percent,       \* argument
    sip_duration_years,                 \* argument
    total_investment_duration_years,    \* argument
    pc,                                 \* position in the function body
    results,                            \* <<>> before line 43, <<dict>> after
    year,                               \* loop variable of line 93
    st_errors,                          \* messages passed to st.error
    retval                              \* "pending", "None", "results", "TypeError"

args == <<one_time_investment, monthly_sip_amount, annual_interest_rate_percent,
          sip_duration_years, total_investment_duration_years>>

vars == <<one_time_investment, monthly_sip_amount, annual_interest_rate_percent,
          sip_duration_years, total_investment_duration_years,
          pc, results, year, st_errors, retval>>

NonNegativeMessage == "All investment amounts, rates, and durations must be non-negative numbers."
DurationMessage == "Total investment duration must be greater than or equal to SIP duration."

\* ----------------------------------------------------------------- inputs
Invalids == {<<-1, 1>>, Inf, NaN}

LumpSums == {Q(k, 64) : k \in 0..MaxLump} \cup Invalids
SipAmounts == {Q(k, 64) : k \in 0..MaxSip} \cup Invalids
Rates == {Zero, <<1200, 1>>} \cup Invalids
Durations == {<<k, 1>> : k \in 0..MaxYears} \cup Invalids

\* inputs whose intermediate values TLC's integers can hold
InRange(rate, s, t) ==
    (IsFin(rate) /\ rate[1] > 0 /\ IsFin(s) /\ IsFin(t) /\ 0 <= s[1] /\ s[1] <= t[1])
        => 12 * s[1] + 4 * (t[1] - s[1]) <= MaxLoad

Init ==
    /\ one_time_investment \in LumpSums
    /\ monthly_sip_amount \in SipAmounts
    /\ annual_interest_rate_percent \in Rates
    /\ sip_duration_years \in Durations
    /\ total_investment_duration_years \in Durations
    /\ InRange(annual_interest_rate_percent, sip_duration_years,
               total_investment_duration_years)
    /\ pc = "check_non_negative"
    /\ results = <<>>
    /\ year = 1
    /\ st_errors = <<>>
    /\ retval = "pending"

\* ---------------------------------------------------------- the function
annual_interest_rate == Div(annual_interest_rate_percent, <<100, 1>>)
monthly_interest_rate == Div(annual_interest_rate, <<12, 1>>)

\* the zero-rate branch counting years instead of months
AnnuityValueYears(n) ==
    IF GT0(monthly_interest_rate)
    THEN Mul(monthly_sip_amount,
             Div(Sub(Pow(Add(One, monthly_interest_rate), n), One),
                 monthly_interest_rate))
    ELSE Mul(monthly_sip_amount, <<n \div 12, 1>>)

\* value of the annuity after n monthly payments (lines 65-68 and 101-104)
AnnuityValue(n) ==
    IF GT0(monthly_interest_rate)
    THEN Mul(monthly_sip_amount,
             Div(Sub(Pow(Add(One, monthly_interest_rate), n), One),
                 monthly_interest_rate))
    ELSE Mul(monthly_sip_amount, <<n, 1>>)

\* compounding over the years that remain instead of the years elapsed
OneTimeValueRemaining(y) ==
    Mul(one_time_investment,
        Pow(Add(One, annual_interest_rate), total_investment_duration_years[1] - y))

\* lines 56 and 95
OneTimeValue(y) == Mul(one_time_investment, Pow(Add(One, annual_interest_rate), y))

\* the lump sum left out of the total
TotalContributedSipOnly(total_contributed_sip) == Add(Zero, total_contributed_sip)

\* lines 58 and 71: total_contributed after both "+="
TotalContributed(total_contributed_sip) ==
    Add(Add(Zero, one_time_investment), total_contributed_sip)

\* range(1, total_investment_duration_years)
LastYearExclusive == total_investment_duration_years[1] - 1

\* line 93: the last value of range(1, total_investment_duration_years + 1)
LastYear == total_investment_duration_years[1]

AllNonNegative == \A i \in 1..5 : GE0(args[i])

\* lines 28-33
CheckNonNegative ==
    /\ pc = "check_non_negative"
    /\ IF AllNonNegative
       THEN /\ pc' = "check_duration"
            /\ UNCHANGED <<st_errors, retval>>
       ELSE /\ st_errors' = Append(st_errors, NonNegativeMessage)
            /\ retval' = "None"
            /\ pc' = "done"
    /\ UNCHANGED <<args, results, year>>

\* the duration check returning None without calling st.error
CheckDurationSilent ==
    /\ pc = "check_duration"
    /\ IF LT(total_investment_duration_years, sip_duration_years)
       THEN /\ retval' = "None"
            /\ pc' = "done"
            /\ UNCHANGED st_errors
       ELSE /\ pc' = "summary"
            /\ UNCHANGED <<st_errors, retval>>
    /\ UNCHANGED <<args, results, year>>

\* lines 35-37
CheckDuration ==
    /\ pc = "check_duration"
    /\ IF LT(total_investment_duration_years, sip_duration_years)
       THEN /\ st_errors' = Append(st_errors, DurationMessage)
            /\ retval' = "None"
            /\ pc' = "done"
       ELSE /\ pc' = "summary"
            /\ UNCHANGED <<st_errors, retval>>
    /\ UNCHANGED <<args, results, year>>

\* lines 39-91, for integer durations
ComputeSummary ==
    /\ pc = "summary"
    /\ IsFin(total_investment_duration_years)
    /\ LET s == sip_duration_years[1]
           t == total_investment_duration_years[1]
           final_value_one_time == OneTimeValue(t)
           num_sip_months == s * 12
           final_value_sip_at_sip_end == AnnuityValue(num_sip_months)
           final_value_sip_after_full_period ==
               Mul(final_value_sip_at_sip_end, Pow(Add(One, annual_interest_rate), t - s))
           sip == GT0(monthly_sip_amount)
           total_contributed_sip ==
               IF sip THEN Mul(monthly_sip_amount, <<num_sip_months, 1>>) ELSE Zero
           total_contributed == TotalContributed(total_contributed_sip)
       IN  \E fvot \in round2(final_value_one_time),
              vsse \in (IF sip THEN round2(final_value_sip_at_sip_end) ELSE {Zero}),
              fvms \in (IF sip THEN round2(final_value_sip_after_full_period) ELSE {Zero}) :
             \E fv \in round2(Add(final_value_one_time, fvms)) :
               \E te \in round2(Sub(fv, total_contributed)) :
                 results' = << [ final_value_one_time_investment |-> fvot,
                                 total_contributed_sip |-> total_contributed_sip,
                                 total_contributed |-> total_contributed,
                                 value_of_sip_at_sip_end |-> vsse,
                                 final_value_monthly_sip |-> fvms,
                                 final_value |-> fv,
                                 total_earnings |-> te,
                                 growth_over_time |-> <<>> ] >>
    /\ pc' = "loop"
    /\ year' = 1
    /\ UNCHANGED <<args, st_errors, retval>>

\* lines 39-93 when total_investment_duration_years is a non-finite float:
\* range() raises TypeError and the local dictionary is lost
RaiseTypeError ==
    /\ pc = "summary"
    /\ ~IsFin(total_investment_duration_years)
    /\ retval' = "TypeError"
    /\ pc' = "done"
    /\ UNCHANGED <<args, results, year, st_errors>>

\* lines 93-122: one iteration of the loop
LoopBody ==
    /\ pc = "loop"
    /\ year <= LastYear
    /\ LET s == sip_duration_years[1]
           R == results[1]
           current_one_time_value == OneTimeValue(year)
           current_sip_value ==
               IF year <= s
               THEN AnnuityValue(year * 12)
               ELSE IF s > 0 /\ GT0(R.value_of_sip_at_sip_end)
                    THEN Mul(R.value_of_sip_at_sip_end,
                             Pow(Add(One, annual_interest_rate), year - s))
                    ELSE Zero
           total_value_at_year_end == Add(current_one_time_value, current_sip_value)
       IN  \E otv \in round2(current_one_time_value),
              sv \in round2(current_sip_value),
              tv \in round2(total_value_at_year_end) :
             results' = << [ R EXCEPT !.growth_over_time =
                               Append(@, [ year |-> year,
                                           one_time_value |-> otv,
                                           sip_value |-> sv,
                                           total_value |-> tv ]) ] >>
    /\ year' = year + 1
    /\ UNCHANGED <<args, pc, st_errors, retval>>

\* line 124
Return ==
    /\ pc = "loop"
    /\ year > LastYear
    /\ retval' = "results"
    /\ pc' = "done"
    /\ UNCHANGED <<args, results, year, st_errors>>

Next ==
    \/ CheckNonNegative
    \/ CheckDuration
    \/ ComputeSummary
    \/ RaiseTypeError
    \/ LoopBody
    \/ Return

Spec == Init /\ [][Next]_vars

\* ================================================================ claims
\* names used by the properties below
L == one_time_investment
M == monthly_sip_amount
S == sip_duration_years[1]
T == total_investment_duration_years[1]
R == results[1]
G == results[1].growth_over_time

\* the function has returned its dictionary
Returned == pc = "done" /\ retval = "results"

\* finite, non-negative arguments with totalYears >= contributionYears
ValidInput ==
    /\ \A i \in 1..5 : args[i][2] > 0 /\ args[i][1] >= 0
    /\ S <= T

\* a stored 2-decimal value as a whole number of cents
Cents(v) == v[1] * (100 \div v[2])

\* |a - b| <= 0.01 for finite a, b
WithinOneCent(a, b) == LET d == Sub(a, b) IN 100 * Abs(d[1]) <= d[2]

Min(a, b) == IF a < b THEN a ELSE b

\* lumpSum plus the contributions made in the first y years
ContributedBy(y) == Add(L, Mul(M, <<12 * Min(y, S), 1>>))

\* C1: for every valid input with totalYears >= 1 the last trajectory record's
\* total_value equals the summary final_value.
C1_LastTotalEqualsFinal ==
    (Returned /\ ValidInput /\ T >= 1) => G[T].total_value = R.final_value

\* C2: for every valid input the call returns its dictionary, whose trajectory
\* has exactly totalYears records, the i-th with year = i (empty for
\* totalYears = 0).
C2_TrajectoryYears ==
    (pc = "done" /\ ValidInput) =>
        /\ retval = "results"
        /\ Len(G) = T
        /\ \A i \in 1..Len(G) : G[i].year = i

C2_Witness == Returned /\ ValidInput /\ T >= 2 /\ Len(G) = T

\* C3 (as claimed): with a positive rate and lumpSum > 0 or
\* monthlyContribution > 0, the stored total_value is strictly increasing in year.
C3_StrictlyIncreasing ==
    (Returned /\ ValidInput /\ annual_interest_rate_percent[1] > 0
        /\ (L[1] > 0 \/ M[1] > 0)) =>
        \A i, j \in 1..Len(G) :
            i < j => Cents(G[i].total_value) < Cents(G[j].total_value)

\* C3 (amended): with a positive rate and lumpSum > 0 or monthlyContribution > 0,
\* the stored total_value never decreases from one year to a later year of the
\* same phase (both within the contribution years, or both after them).
C3_NonDecreasingWithinPhase ==
    (Returned /\ ValidInput /\ annual_interest_rate_percent[1] > 0
        /\ (L[1] > 0 \/ M[1] > 0)) =>
        \A i, j \in 1..Len(G) :
            (i < j /\ (j <= S \/ i > S)) =>
                Cents(G[i].total_value) <= Cents(G[j].total_value)

C3_Witness ==
    /\ Returned /\ ValidInput /\ annual_interest_rate_percent[1] > 0
    /\ L[1] > 0 /\ M[1] > 0 /\ S = 1 /\ T = 3
    /\ Cents(G[2].total_value) < Cents(G[3].total_value)

\* C4: whenever one of the five inputs is negative or not a finite number, the
\* call fails with InvalidInput and returns no result.
C4_RejectsNegativeOrNonFinite ==
    (pc = "done" /\ \E i \in 1..5 : args[i][2] = 0 \/ args[i][1] < 0) =>
        (retval = "None" /\ results = <<>>)

\* C5: with five non-negative inputs and totalYears < contributionYears the call
\* fails before any computation: it never reaches the summary, builds no
\* dictionary, and ends returning None.
C5_DurationRejectedBeforeComputation ==
    ( /\ \A i \in 1..5 : args[i] = Inf \/ (args[i][2] > 0 /\ args[i][1] >= 0)
      /\ total_investment_duration_years[2] > 0
      /\ (sip_duration_years = Inf \/ T < S) ) =>
        /\ results = <<>>
        /\ pc \in {"check_non_negative", "check_duration", "done"}
        /\ pc = "done" => retval = "None"

C5_Witness ==
    /\ pc = "done" /\ retval = "None" /\ results = <<>>
    /\ \A i \in 1..5 : args[i][2] > 0 /\ args[i][1] >= 0
    /\ T < S

\* C6: for every valid input every monetary field of the result is >= 0,
\* total_earnings included.
C6_MonetaryFieldsNonNegative ==
    (Returned /\ ValidInput) =>
        /\ GE0(R.final_value_one_time_investment)
        /\ GE0(R.total_contributed_sip)
        /\ GE0(R.value_of_sip_at_sip_end)
        /\ GE0(R.final_value_monthly_sip)
        /\ GE0(R.total_contributed)
        /\ GE0(R.final_value)
        /\ GE0(R.total_earnings)
        /\ \A i \in 1..Len(G) :
            GE0(G[i].one_time_value) /\ GE0(G[i].sip_value) /\ GE0(G[i].total_value)

\* C7 (as claimed): the stored totals satisfy total_contributed = lumpSum +
\* total_contributed_sip, final_value = final_value_one_time_investment +
\* final_value_monthly_sip, total_earnings = final_value - total_contributed,
\* and total_contributed_sip = monthlyContribution * 12 * contributionYears
\* (0 without a monthly contribution).
C7_TotalsIdentities ==
    (Returned /\ ValidInput) =>
        /\ R.total_contributed = Add(L, R.total_contributed_sip)
        /\ R.final_value =
               Add(R.final_value_one_time_investment, R.final_value_monthly_sip)
        /\ R.total_earnings = Sub(R.final_value, R.total_contributed)
        /\ R.total_contributed_sip =
               (IF M[1] > 0 THEN Mul(M, <<12 * S, 1>>) ELSE Zero)

\* C7 (amended): total_contributed = lumpSum + total_contributed_sip and
\* total_contributed_sip = monthlyContribution * 12 * contributionYears hold
\* exactly; final_value is the 2-decimal rounding of the unrounded lump-sum value
\* plus the stored final_value_monthly_sip, within one cent of the sum of the two
\* stored legs; total_earnings is the 2-decimal rounding of
\* final_value - total_contributed.
C7_TotalsUpToRounding ==
    (Returned /\ ValidInput) =>
        /\ R.total_contributed = Add(L, R.total_contributed_sip)
        /\ R.final_value \in
               round2(Add(Mul(L, Pow(Add(One, annual_interest_rate), T)),
                          R.final_value_monthly_sip))
        /\ WithinOneCent(R.final_value,
               Add(R.final_value_one_time_investment, R.final_value_monthly_sip))
        /\ R.total_earnings \in round2(Sub(R.final_value, R.total_contributed))
        /\ R.total_contributed_sip =
               (IF M[1] > 0 THEN Mul(M, <<12 * S, 1>>) ELSE Zero)

C7_Witness ==
    /\ Returned /\ ValidInput /\ M[1] > 0 /\ L[1] > 0 /\ S >= 1
    /\ R.total_earnings # Sub(R.final_value, R.total_contributed)

\* C8 (as claimed): at rate 0, final_value = total_contributed = lumpSum +
\* monthlyContribution * 12 * contributionYears, total_earnings = 0, final_value =
\* lumpSum without a monthly contribution, and every trajectory total_value is
\* lumpSum plus the contributions made up to that year.
C8_ZeroRateExact ==
    (Returned /\ ValidInput /\ annual_interest_rate_percent = Zero) =>
        /\ R.final_value = R.total_contributed
        /\ R.total_contributed = ContributedBy(S)
        /\ R.total_earnings = Zero
        /\ M = Zero => R.final_value = L
        /\ \A y \in 1..Len(G) : G[y].total_value = ContributedBy(y)

\* C8 (amended): at rate 0, total_contributed = lumpSum + monthlyContribution *
\* 12 * contributionYears exactly; final_value is within one cent of it,
\* total_earnings is -0.01, 0 or 0.01, final_value is the 2-decimal rounding of
\* lumpSum without a monthly contribution, and every trajectory total_value is
\* within one cent of lumpSum plus the contributions made up to that year.
C8_ZeroRateUpToRounding ==
    (Returned /\ ValidInput /\ annual_interest_rate_percent = Zero) =>
        /\ WithinOneCent(R.final_value, R.total_contributed)
        /\ R.total_contributed = ContributedBy(S)
        /\ Cents(R.total_earnings) \in {-1, 0, 1}
        /\ M = Zero => R.final_value \in round2(L)
        /\ \A y \in 1..Len(G) : WithinOneCent(G[y].total_value, ContributedBy(y))

C8_Witness ==
    /\ Returned /\ ValidInput /\ annual_interest_rate_percent = Zero
    /\ M[1] > 0 /\ S >= 1 /\ T > S
    /\ R.final_value # R.total_contributed

\* C9 (as claimed): no call, successful or failing, performs UI output.
C9_NoPresentation == st_errors = <<>>

\* C9 (amended): a call that returns the dictionary (or raises) performs no UI
\* output; a call that fails validation itself reports the failure through
\* st.error, exactly once and with the message of the failed check, and then
\* returns None.
C9_PresentationOnlyOnValidationFailure ==
    /\ Len(st_errors) <= 1
    /\ retval # "None" => st_errors = <<>>
    /\ retval = "None" =>
          /\ results = <<>>
          /\ st_errors \in {<<NonNegativeMessage>>, <<DurationMessage>>}
          /\ st_errors = <<NonNegativeMessage>> <=>
                 \E i \in 1..5 : args[i] # Inf /\ (args[i][2] = 0 \/ args[i][1] < 0)

C9_Witness == pc = "done" /\ retval = "None" /\ st_errors = <<DurationMessage>>

\* C10: for every year after the contribution years the stored sip_value is the
\* 2-decimal rounding of the stored value_of_sip_at_sip_end compounded annually
\* (0 when contributionYears = 0 or that value is 0); at year = contributionYears
\* it equals the stored value_of_sip_at_sip_end; and at year = totalYears it
\* equals final_value_monthly_sip.
C10_SipHandOff ==
    (Returned /\ ValidInput) =>
        /\ \A y \in (S + 1)..Len(G) :
              /\ G[y].sip_value \in
                     round2(Mul(R.value_of_sip_at_sip_end,
                                Pow(Add(One, annual_interest_rate), y - S)))
              /\ (S = 0 \/ R.value_of_sip_at_sip_end = Zero) => G[y].sip_value = Zero
        /\ (S >= 1 /\ Len(G) >= S) => G[S].sip_value = R.value_of_sip_at_sip_end
        /\ Len(G) >= 1 => G[Len(G)].sip_value = R.final_value_monthly_sip

\* The part of C10 that concerns the trajectory alone (without the comparison
\* with final_value_monthly_sip).
SipHandOffInTrajectory ==
    (Returned /\ ValidInput) =>
        /\ \A y \in (S + 1)..Len(G) :
              /\ G[y].sip_value \in
                     round2(Mul(R.value_of_sip_at_sip_end,
                                Pow(Add(One, annual_interest_rate), y - S)))
              /\ (S = 0 \/ R.value_of_sip_at_sip_end = Zero) => G[y].sip_value = Zero
        /\ (S >= 1 /\ Len(G) >= S) => G[S].sip_value = R.value_of_sip_at_sip_end

====
